---- MODULE Spec2Model ----
(***************************************************************************)
(* mibot: a Slack RTM bot that answers "kubectl get deploy|po -n <ns>"     *)
(* mentions with listings read from a Kubernetes cluster (src/mibot.go).   *)
(*                                                                         *)
(* Texts are sequences of one-character strings, so that substring tests,  *)
(* the two regular expressions and the reply formatting are computed       *)
(* character by character as the Go code computes them.  What the program  *)
(* writes to its standard output is not part of the modelled state.        *)
(***************************************************************************)
EXTENDS Integers, Sequences, FiniteSets, TLC

VARIABLES
    incoming,   \* rtm.IncomingEvents: events delivered and not yet received
    closed,     \* whether the transport has closed rtm.IncomingEvents
    delivered,  \* number of events the transport has delivered so far
    ev,         \* the event the loop received last (msg / ev of the switch)
    pc,         \* position of main: "recv", "listing", "done", "panic"
    queries,    \* list calls issued to the clientset, in order, with outcome
    outgoing    \* messages handed to rtm.SendMessage, in order

vars == <<incoming, closed, delivered, ev, pc, queries, outgoing>>

(***************************************************************************)
(* Bounds of the model.                                                    *)
(***************************************************************************)
\* events the transport delivers in one run of the dispatch loop
MaxEvents == 3
\* containers a pod declares
MaxContainers == 3

(***************************************************************************)
(* Text primitives.                                                        *)
(***************************************************************************)
\* s has lit at position i (positions are 1-based)
HasAt(s, i, lit) ==
    /\ i >= 1
    /\ i + Len(lit) - 1 <= Len(s)
    /\ \A j \in 1..Len(lit) : s[i + j - 1] = lit[j]

\* strings.Contains(s, substr)
Contains(s, substr) == \E i \in 1..(Len(s) + 1) : HasAt(s, i, substr)

\* the part of s from position i to its end
From(s, i) == SubSeq(s, i, Len(s))

RECURSIVE Concat(_)
\* the texts of a sequence written one after the other (strings.Builder)
Concat(ss) == IF ss = <<>> THEN <<>> ELSE Head(ss) \o Concat(Tail(ss))

\* the backquote character, which a TLA+ string cannot hold
BQ == "backquote"

Digits == <<"0","1","2","3","4","5","6","7","8","9">>

RECURSIVE Itoa(_)
\* strconv.Itoa for n >= 0: the decimal digits of n
Itoa(n) ==
    IF n < 10 THEN <<Digits[n + 1]>>
    ELSE Itoa(n \div 10) \o <<Digits[(n % 10) + 1]>>

\* The command patterns (lines 40-41) and Go's regexp matching:
\*   k(ubectl)? get deploy(ment)?(s)? -n (?P<namespace>.*)
\*   k(ubectl)? get po(d)?(s)? -n (?P<namespace>.*)
\* A pattern is given by its resource word and its first optional group; the
\* rest of the two patterns is the same and is spelled out in MatchAt.
getDeployRegexp == [noun |-> <<"d","e","p","l","o","y">>, opt |-> <<"m","e","n","t">>]

\* the copy-and-paste slip: the pod pattern compiled from the workload one
getPodRegexpAsDeploy == [noun |-> <<"d","e","p","l","o","y">>, opt |-> <<"m","e","n","t">>]

getPodRegexp == [noun |-> <<"p","o">>, opt |-> <<"d">>]

RECURSIVE DotStarToSpace(_, _)
\* a capture that stops at the first blank, as \S* would
DotStarToSpace(s, p) ==
    IF p > Len(s) \/ s[p] = "\n" \/ s[p] = " " THEN <<>>
    ELSE <<s[p]>> \o DotStarToSpace(s, p + 1)

RECURSIVE DotStar(_, _)
\* `.*` at position p: greedy, and `.` matches every character but "\n"
DotStar(s, p) ==
    IF p > Len(s) \/ s[p] = "\n" THEN <<>>
    ELSE <<s[p]>> \o DotStar(s, p + 1)

\* an optional group `(lit)?` at position p: what it captures
Opt(s, p, lit) == IF HasAt(s, p, lit) THEN lit ELSE <<>>

\* The match of pattern r that starts at position i: <<whole, g1, g2, g3,
\* namespace>>, or <<>> when there is none.  Each optional group is taken
\* when its literal is present: the character that has to follow a skipped
\* group (" " after k, "s" or " " after the resource word) is never the first
\* character of the group, so backtracking finds no other match.
MatchAt(r, s, i) ==
    LET g1 == Opt(s, i + 1, <<"u","b","e","c","t","l">>)
        p2 == i + 1 + Len(g1)
        verb == <<" ","g","e","t"," ">> \o r.noun
        p3 == p2 + Len(verb)
        g2 == Opt(s, p3, r.opt)
        p4 == p3 + Len(g2)
        g3 == Opt(s, p4, <<"s">>)
        p5 == p4 + Len(g3)
        p6 == p5 + Len(<<" ","-","n"," ">>)
        ns == DotStar(s, p6)
    IN  IF HasAt(s, i, <<"k">>) /\ HasAt(s, p2, verb) /\ HasAt(s, p5, <<" ","-","n"," ">>)
        THEN <<SubSeq(s, i, p6 + Len(ns) - 1), g1, g2, g3, ns>>
        ELSE <<>>

\* (*regexp.Regexp).MatchString: the pattern matches somewhere in s
MatchString(r, s) == \E i \in 1..Len(s) : MatchAt(r, s, i) # <<>>

\* (*regexp.Regexp).FindStringSubmatch: the leftmost match, or <<>> (nil)
FindStringSubmatch(r, s) ==
    IF ~MatchString(r, s) THEN <<>>
    ELSE LET i == CHOOSE k \in 1..Len(s) :
                      /\ MatchAt(r, s, k) # <<>>
                      /\ \A j \in 1..(k - 1) : MatchAt(r, s, j) = <<>>
         IN  MatchAt(r, s, i)

\* (*regexp.Regexp).SubexpNames of both patterns: Go's index 0..4 is 1..5 here
SubexpNames == <<"", "", "", "", "namespace">>

\* regexpSubexpMatch (lines 145-155): every group but the whole match, keyed
\* by its name; a later group overwrites an earlier one of the same name
regexpSubexpMatch(r, str) ==
    LET match == FindStringSubmatch(r, str)
        idx == 2..Len(SubexpNames)
    IN  [name \in {SubexpNames[i] : i \in idx} |->
            match[CHOOSE i \in idx :
                      /\ SubexpNames[i] = name
                      /\ \A j \in idx : SubexpNames[j] = name => j <= i]]

(***************************************************************************)
(* The bot's identity and its replies.                                     *)
(***************************************************************************)
\* rtm.GetInfo().User.ID
BotID == <<"U","1">>

\* fmt.Sprintf("<@%s>", rtm.GetInfo().User.ID) (line 64)
botTagString == <<"<","@">> \o BotID \o <<">">>

\* the filter of line 65 with the test dropped: every message is taken up
AddressedAlways(text) == TRUE

\* line 65: the message text contains the bot's mention token
Addressed(text) == Contains(text, botTagString)

\* the reply of line 108
UsageText ==
    <<BQ,BQ,BQ,"\n","k","u","b","e","c","t","l"," ","g","e","t"," ","d","e","p","l","o","y"," ","-","n"," ","$","n","a","m","e","s","p","a","c","e","\n","k","u","b","e","c","t","l"," ","g","e","t"," ","p","o"," ","-","n"," ","$","n","a","m","e","s","p","a","c","e","\n",BQ,BQ,BQ>>

\* the reply of line 110
FallbackText ==
    <<"I","'","m"," ","m","i","b","o","t","."," ","I","'","m"," ","a","l","i","v","e",","," ","b","u","t"," ","i","d","k"," ","w","h","a","t"," ","y","o","u"," ","w","a","n","t"," ","f","r","o","m"," ","m","e","!"," ","T","r","y"," ","h","e","l","p","?"," ",":","n","a","r","w","h","a","l","-","d","a","n","c","i","n","g",":">>

\* the listing written without the line break after each name
FormatDeploymentsNoBreak(items) ==
    <<BQ,BQ,BQ,"\n">> \o Concat([i \in 1..Len(items) |-> items[i].name]) \o <<BQ,BQ,BQ>>

\* lines 78-82: the fenced block of the workloads' names, one per line
FormatDeployments(items) ==
    <<BQ,BQ,BQ,"\n">> \o Concat([i \in 1..Len(items) |-> items[i].name \o <<"\n">>]) \o <<BQ,BQ,BQ>>

\* lines 96-101: the pod's container statuses whose State.Running is set
runningContainers(po) ==
    Cardinality({i \in 1..Len(po.statuses) : po.statuses[i] = "running"})

\* line 102: name, phase, running/len(po.Status.ContainerStatuses)
PodLine(po) ==
    po.name \o <<"\t">> \o po.phase \o <<"\t">> \o Itoa(runningContainers(po))
        \o <<"/">> \o Itoa(Len(po.statuses)) \o <<"\n">>

\* lines 94-104: the fenced block of the pods' lines
FormatPods(items) ==
    <<BQ,BQ,BQ,"\n">> \o Concat([i \in 1..Len(items) |-> PodLine(items[i])]) \o <<BQ,BQ,BQ>>

\* the chain tried with the pod pattern first
BranchPodFirst(text) ==
    IF MatchString(getPodRegexp, text) THEN "pod"
    ELSE IF MatchString(getDeployRegexp, text) THEN "deploy"
    ELSE IF Contains(text, <<"h","e","l","p">>) THEN "help"
    ELSE "fallback"

\* the if / else-if chain of lines 69, 85, 107, 109
Branch(text) ==
    IF MatchString(getDeployRegexp, text) THEN "deploy"
    ELSE IF MatchString(getPodRegexp, text) THEN "pod"
    ELSE IF Contains(text, <<"h","e","l","p">>) THEN "help"
    ELSE "fallback"

\* a reply sent to one fixed channel instead of the message's own
SendMessageFixedChannel(text, channel, re) ==
    Append(outgoing, [channel |-> "general", text |-> text, re |-> re])

\* rtm.SendMessage(rtm.NewOutgoingMessage(text, channel)); re is the number of
\* the event being handled, kept to tell which message a reply answers
SendMessage(text, channel, re) ==
    Append(outgoing, [channel |-> channel, text |-> text, re |-> re])

(***************************************************************************)
(* What the environment can supply: events, message texts, list results.   *)
(***************************************************************************)
Channels == {"C1", "C2"}

\* the variants of the type switch (lines 56-141); "other" is any variant the
\* switch does not name
SilentTypes ==
    {"hello", "connected", "presence_change", "latency_report",
     "desktop_notification", "rtm_error", "other"}

\* the events the transport may deliver, given the message texts
Events(texts) ==
    {[type |-> t, text |-> <<>>, channel |-> ""] :
        t \in SilentTypes \cup {"invalid_auth"}}
    \cup {[type |-> "message", text |-> x, channel |-> c] :
             x \in texts, c \in Channels}

NoEvent == [type |-> "none", text |-> <<>>, channel |-> "", id |-> 0]

\* message texts of the runs of the whole loop
LoopTexts ==
    {<<"<","@","U","1",">"," ","k","u","b","e","c","t","l"," ","g","e","t"," ","d","e","p","l","o","y"," ","-","n"," ","p","r","o","d">>,
     <<"<","@","U","1",">"," ","k"," ","g","e","t"," ","p","o"," ","-","n"," ","p","r","o","d">>,
     <<"<","@","U","1",">"," ","h","e","l","p">>,
     <<"k","u","b","e","c","t","l"," ","g","e","t"," ","d","e","p","l","o","y"," ","-","n"," ","p","r","o","d"," ","h","e","l","p">>}

Heads == {<<>>, <<"<","@","U","1",">"," ">>, <<"<","@","U","2",">"," ">>}

Prefixes == {<<>>, <<"k"," ">>, <<"k","u","b","e","c","t","l"," ">>}

Verbs ==
    {<<"g","e","t"," ","d","e","p","l","o","y">>, <<"g","e","t"," ","d","e","p","l","o","y","m","e","n","t">>, <<"g","e","t"," ","d","e","p","l","o","y","m","e","n","t","s">>, <<"g","e","t"," ","d","e","p","l","o","y","s">>,
     <<"g","e","t"," ","p","o">>, <<"g","e","t"," ","p","o","d">>, <<"g","e","t"," ","p","o","d","s">>, <<"g","e","t"," ","p","o","s">>}

Tails ==
    {<<"p","r","o","d">>, <<"p","r","o","d","!">>, <<"k","u","b","e"," ","s","y","s","t","e","m">>, <<"a","\n","b">>, <<"x"," ","h","e","l","p">>, <<"x"," ","<","@","U","1",">">>,
     <<"k"," ","g","e","t"," ","d","e","p","l","o","y"," ","-","n"," ","h","e","l","p">>, <<"k"," ","g","e","t"," ","p","o"," ","-","n"," ","y">>}

\* message texts of the single-message runs: a head, a command with or
\* without the k / kubectl prefix, and whatever follows the -n flag
CommandTexts ==
    {h \o k \o v \o <<" ","-","n"," ">> \o t :
        h \in Heads, k \in Prefixes, v \in Verbs, t \in Tails}

PlainTexts ==
    {h \o w : h \in Heads, w \in {<<>>, <<"h","e","l","p">>, <<"h","i">>, <<"g","e","t"," ","d","e","p","l","o","y"," ","p","r","o","d">>}}

DispatchTexts == CommandTexts \cup PlainTexts

\* the sequences without repetition of elements of S (names are unique in a
\* namespace)
RECURSIVE Listings(_)
Listings(S) ==
    {<<>>} \cup UNION {{<<x>> \o l : l \in Listings(S \ {x})} : x \in S}

Deployments == {[name |-> <<"a","p","i">>], [name |-> <<"w","o","r","k","e","r">>]}

\* a pod: its name, its phase, the number of containers of its spec and the
\* states of the containers reported so far (never more than it declares)
ContainerStates(n) ==
    UNION {[1..k -> {"running", "waiting"}] : k \in 0..n}

Pods(names) ==
    {[name |-> nm, phase |-> ph, containers |-> n, statuses |-> st] :
        nm \in names, ph \in {<<"R","u","n","n","i","n","g">>, <<"P","e","n","d","i","n","g">>},
        n \in 1..MaxContainers, st \in ContainerStates(MaxContainers)}

PodsOf(names) == {po \in Pods(names) : Len(po.statuses) <= po.containers}

\* pod listings of at most one pod
PodListings == {<<>>} \cup {<<po>> : po \in PodsOf({<<"a","p","i","-","1">>})}

LoopDeployments == {<<>>, <<[name |-> <<"a","p","i">>]>>}

LoopPods ==
    {<<[name |-> <<"a","p","i","-","1">>, phase |-> <<"R","u","n","n","i","n","g">>, containers |-> 1,
        statuses |-> <<"running">>]>>}

(***************************************************************************)
(* The program: main's dispatch loop and the transport that feeds it.      *)
(***************************************************************************)
Running == pc \in {"recv", "listing"}

\* after line 52: the connection manager is started, nothing has arrived
Init ==
    /\ incoming = <<>>
    /\ closed = FALSE
    /\ delivered = 0
    /\ ev = NoEvent
    /\ pc = "recv"
    /\ queries = <<>>
    /\ outgoing = <<>>

\* rtm.ManageConnection (line 52), running beside the loop, puts one more
\* event on rtm.IncomingEvents; the event's number is its place in the order
\* of delivery
Deliver(texts, max) ==
    /\ Running
    /\ ~closed
    /\ delivered < max
    /\ \E e \in Events(texts) :
          incoming' = Append(incoming,
                             [type |-> e.type, text |-> e.text,
                              channel |-> e.channel, id |-> delivered + 1])
    /\ delivered' = delivered + 1
    /\ UNCHANGED <<closed, ev, pc, queries, outgoing>>

\* the transport gives up and closes rtm.IncomingEvents
Close ==
    /\ Running
    /\ ~closed
    /\ closed' = TRUE
    /\ UNCHANGED <<incoming, delivered, ev, pc, queries, outgoing>>

\* a receive that takes the newest event of the channel
NextEventNewest(q) == q[Len(q)]

\* line 54: a receive from the channel takes its oldest event
NextEvent(q) == Head(q)

\* line 54: `for msg := range rtm.IncomingEvents` receives the next event,
\* and line 56 switches on its type
Recv(type) ==
    /\ pc = "recv"
    /\ incoming # <<>>
    /\ NextEvent(incoming).type = type
    /\ ev' = NextEvent(incoming)
    /\ incoming' = Tail(incoming)
    /\ UNCHANGED <<closed, delivered>>

\* line 54: the range loop ends once the channel is closed and drained, and
\* main returns
LoopExit ==
    /\ pc = "recv"
    /\ closed
    /\ incoming = <<>>
    /\ pc' = "done"
    /\ UNCHANGED <<incoming, closed, delivered, ev, queries, outgoing>>

\* lines 57-58
HandleHello == Recv("hello") /\ UNCHANGED <<pc, queries, outgoing>>

\* lines 60-61
HandleConnected == Recv("connected") /\ UNCHANGED <<pc, queries, outgoing>>

\* lines 121-122
HandlePresenceChange ==
    Recv("presence_change") /\ UNCHANGED <<pc, queries, outgoing>>

\* lines 124-125
HandleLatencyReport ==
    Recv("latency_report") /\ UNCHANGED <<pc, queries, outgoing>>

\* lines 127-128
HandleDesktopNotification ==
    Recv("desktop_notification") /\ UNCHANGED <<pc, queries, outgoing>>

\* a generic error treated like invalid credentials: main returns
HandleRTMErrorReturns ==
    Recv("rtm_error") /\ pc' = "done" /\ UNCHANGED <<queries, outgoing>>

\* lines 130-131
HandleRTMError == Recv("rtm_error") /\ UNCHANGED <<pc, queries, outgoing>>

\* invalid credentials only logged: the return of line 135 left out
HandleInvalidAuthContinues ==
    Recv("invalid_auth") /\ UNCHANGED <<pc, queries, outgoing>>

\* lines 133-135: main returns
HandleInvalidAuth ==
    Recv("invalid_auth") /\ pc' = "done" /\ UNCHANGED <<queries, outgoing>>

\* lines 137-140
HandleDefault == Recv("other") /\ UNCHANGED <<pc, queries, outgoing>>

\* lines 70-74 and 86-90: the namespace is taken from the match and the list
\* call is issued; main blocks in it
IssueList(kind, r, e) ==
    /\ queries' = Append(queries,
                         [kind |-> kind,
                          namespace |-> regexpSubexpMatch(r, e.text)["namespace"],
                          for |-> e.id, outcome |-> "pending", items |-> <<>>])
    /\ pc' = "listing"
    /\ UNCHANGED outgoing

\* lines 63-111, up to the list call of a list command
HandleMessage ==
    /\ Recv("message")
    /\ LET e == NextEvent(incoming)
       IN  IF ~Addressed(e.text)
           THEN UNCHANGED <<pc, queries, outgoing>>
           ELSE CASE Branch(e.text) = "deploy" ->
                         IssueList("deployments", getDeployRegexp, e)
                  [] Branch(e.text) = "pod" ->
                         IssueList("pods", getPodRegexp, e)
                  [] Branch(e.text) = "help" ->
                         /\ outgoing' = SendMessage(UsageText, e.channel, e.id)
                         /\ UNCHANGED <<pc, queries>>
                  [] OTHER ->
                         /\ outgoing' = SendMessage(FallbackText, e.channel, e.id)
                         /\ UNCHANGED <<pc, queries>>

\* lines 74-84 and 90-106: the list call returns its items, the listing is
\* formatted and sent to the channel of the message, and the loop goes on
ListReturn(deployLists, podLists) ==
    /\ pc = "listing"
    /\ LET n == Len(queries)
           q == queries[n]
       IN  \E items \in (IF q.kind = "deployments" THEN deployLists ELSE podLists) :
              /\ queries' = [queries EXCEPT ![n].outcome = "ok", ![n].items = items]
              /\ outgoing' =
                     SendMessage(IF q.kind = "deployments"
                                 THEN FormatDeployments(items)
                                 ELSE FormatPods(items),
                                 ev.channel, ev.id)
    /\ pc' = "recv"
    /\ UNCHANGED <<incoming, closed, delivered, ev>>

\* lines 75-77 and 91-93: the list call returns an error and main panics
ListFail ==
    /\ pc = "listing"
    /\ queries' = [queries EXCEPT ![Len(queries)].outcome = "error"]
    /\ pc' = "panic"
    /\ UNCHANGED <<incoming, closed, delivered, ev, outgoing>>

\* one step of the dispatch loop
Dispatch(deployLists, podLists) ==
    \/ HandleHello
    \/ HandleConnected
    \/ HandleMessage
    \/ ListReturn(deployLists, podLists)
    \/ ListFail
    \/ HandlePresenceChange
    \/ HandleLatencyReport
    \/ HandleDesktopNotification
    \/ HandleRTMError
    \/ HandleInvalidAuth
    \/ HandleDefault
    \/ LoopExit

\* the whole loop, fed up to MaxEvents events
Next ==
    \/ Deliver(LoopTexts, MaxEvents)
    \/ Close
    \/ Dispatch(LoopDeployments, LoopPods)

Spec == Init /\ [][Next]_vars

\* the handling of one message, drawn from all the texts and all the listings
NextDispatch ==
    \/ Deliver(DispatchTexts, 1)
    \/ Close
    \/ Dispatch(Listings(Deployments), PodListings)

SpecDispatch == Init /\ [][NextDispatch]_vars

(***************************************************************************)
(* The properties checked.  RepliesTo and QueriesFor pick, by the number   *)
(* of the event, what the handling of that event sent and asked.           *)
(***************************************************************************)
RepliesTo(id) == {i \in 1..Len(outgoing) : outgoing[i].re = id}

QueriesFor(id) == {i \in 1..Len(queries) : queries[i].for = id}

\* the message the loop received last mentions the bot
MentionedLast == ev.type = "message" /\ Contains(ev.text, botTagString)

\* x up to, and without, its first line break
Line(x) ==
    LET breaks == {j \in 1..Len(x) : x[j] = "\n"}
    IN  IF breaks = {} THEN x
        ELSE SubSeq(x, 1, (CHOOSE j \in breaks : \A k \in breaks : j <= k) - 1)

\* the places <<i, f>> where one of the literals F occurs in text t
Occurrences(t, F) ==
    {<<i, f>> \in (1..Len(t)) \X F : HasAt(t, i, f)}

\* what follows the leftmost occurrence of a literal of F in t
AfterFirst(t, F) ==
    LET o == CHOOSE x \in Occurrences(t, F) :
                 \A y \in Occurrences(t, F) : x[1] <= y[1]
    IN  From(t, o[1] + Len(o[2]))

\* the command forms as the specification words them, without a prefix
BareDeployForms ==
    {<<"g","e","t"," ","d","e","p","l","o","y"," ","-","n"," ">>, <<"g","e","t"," ","d","e","p","l","o","y","m","e","n","t"," ","-","n"," ">>, <<"g","e","t"," ","d","e","p","l","o","y","m","e","n","t","s"," ","-","n"," ">>}

BarePodForms == {<<"g","e","t"," ","p","o"," ","-","n"," ">>, <<"g","e","t"," ","p","o","d"," ","-","n"," ">>, <<"g","e","t"," ","p","o","d","s"," ","-","n"," ">>}

\* the command forms the patterns of lines 40-41 accept
DeployForms ==
    {k \o <<" ","g","e","t"," ","d","e","p","l","o","y">> \o m \o s \o <<" ","-","n"," ">> :
        k \in {<<"k">>, <<"k","u","b","e","c","t","l">>}, m \in {<<>>, <<"m","e","n","t">>}, s \in {<<>>, <<"s">>}}

PodForms ==
    {k \o <<" ","g","e","t"," ","p","o">> \o d \o s \o <<" ","-","n"," ">> :
        k \in {<<"k">>, <<"k","u","b","e","c","t","l">>}, d \in {<<>>, <<"d">>}, s \in {<<>>, <<"s">>}}

----------------------------------------------------------------------------
\* C1: the step that receives a message whose text does not contain the bot's
\* mention token sends no reply, issues no list query and leaves the loop
\* waiting for the next event, whatever else the text contains.
C1_UnaddressedIgnored ==
    [][(ev'.id # ev.id /\ ev'.type = "message"
            /\ ~Contains(ev'.text, botTagString))
        => (outgoing' = outgoing /\ queries' = queries /\ pc' = "recv")]_vars

\* an unaddressed message holding a full workload command and the word help
\* has been received, and nothing was sent or asked
C1_Witness ==
    /\ ev.type = "message"
    /\ ~Contains(ev.text, botTagString)
    /\ Contains(ev.text, <<"k","u","b","e","c","t","l"," ","g","e","t"," ","d","e","p","l","o","y"," ","-","n"," ","x"," ","h","e","l","p">>)
    /\ pc = "recv"
    /\ outgoing = <<>>
    /\ queries = <<>>

----------------------------------------------------------------------------
ExactlyOneReply ==
    /\ Cardinality(RepliesTo(ev.id)) = 1
    /\ \A i \in RepliesTo(ev.id) : outgoing[i].channel = ev.channel

\* C2 as stated: once a message that mentions the bot has been handled, exactly
\* one reply has been sent for it, to the message's channel, whatever the list
\* call returned.
C2_OneReplyWhateverTheListReturns ==
    (MentionedLast /\ pc # "listing") => ExactlyOneReply

\* C2 amended: exactly one reply, to the message's channel, once the message
\* has been handled without the list call failing; while the list call is in
\* flight, and after it failed and main panicked, no reply has been sent.
C2_OneReplyUnlessListFails ==
    /\ (MentionedLast /\ pc \notin {"listing", "panic"}) => ExactlyOneReply
    /\ (MentionedLast /\ pc \in {"listing", "panic"}) => RepliesTo(ev.id) = {}

\* a workload listing has been sent to channel C2, where the command came from
C2_Witness ==
    /\ MentionedLast
    /\ ev.channel = "C2"
    /\ pc = "recv"
    /\ Len(queries) = 1
    /\ queries[1].kind = "deployments"
    /\ queries[1].outcome = "ok"
    /\ Len(outgoing) = 1
    /\ outgoing[1].channel = "C2"

----------------------------------------------------------------------------
\* the kinds of the list queries issued for the last event
KindsAsked == {queries[i].kind : i \in QueriesFor(ev.id)}

\* the texts of the replies sent for the last event
TextsReplied == {outgoing[i].text : i \in RepliesTo(ev.id)}

\* C3: a message that mentions the bot takes exactly one of four paths, in
\* this order of priority: the workload list if the workload pattern matches,
\* else the pod list if the pod pattern matches, else the usage text if the
\* text contains "help", else the fallback reply.
C3_PriorityOrder ==
    MentionedLast =>
        IF MatchString(getDeployRegexp, ev.text)
        THEN /\ KindsAsked = {"deployments"}
             /\ Cardinality(QueriesFor(ev.id)) = 1
             /\ TextsReplied \cap {UsageText, FallbackText} = {}
        ELSE IF MatchString(getPodRegexp, ev.text)
        THEN /\ KindsAsked = {"pods"}
             /\ Cardinality(QueriesFor(ev.id)) = 1
             /\ TextsReplied \cap {UsageText, FallbackText} = {}
        ELSE IF Contains(ev.text, <<"h","e","l","p">>)
        THEN KindsAsked = {} /\ TextsReplied = {UsageText}
        ELSE KindsAsked = {} /\ TextsReplied = {FallbackText}

\* a text that matches both patterns and contains "help" was answered with a
\* workload listing
C3_Witness ==
    /\ MentionedLast
    /\ MatchString(getDeployRegexp, ev.text)
    /\ MatchString(getPodRegexp, ev.text)
    /\ Contains(ev.text, <<"h","e","l","p">>)
    /\ pc = "recv"
    /\ KindsAsked = {"deployments"}
    /\ Cardinality(RepliesTo(ev.id)) = 1

----------------------------------------------------------------------------
\* C4 as stated: wherever the text of a message that mentions the bot reads
\* "get deploy -n X", "get deployment -n X" or "get deployments -n X", a
\* workload list query is issued whose namespace is exactly X, the whole
\* remainder of the text after the flag.
C4_BareFormNamespaceIsRemainder ==
    MentionedLast =>
        \A o \in Occurrences(ev.text, BareDeployForms) :
            \E q \in QueriesFor(ev.id) :
                /\ queries[q].kind = "deployments"
                /\ queries[q].namespace = From(ev.text, o[1] + Len(o[2]))

\* C4 amended: when the text of a message that mentions the bot contains
\* "k" or "kubectl", then " get deploy", " get deployment", " get deployments"
\* or " get deploys", then " -n ", one workload list query is issued, and its
\* namespace is what follows the "-n " of the leftmost such command up to the
\* end of that line, untrimmed: trailing punctuation and extra words included.
C4_NamespaceIsRestOfLine ==
    (MentionedLast /\ Occurrences(ev.text, DeployForms) # {}) =>
        /\ Cardinality(QueriesFor(ev.id)) = 1
        /\ \A q \in QueriesFor(ev.id) :
              /\ queries[q].kind = "deployments"
              /\ queries[q].namespace = Line(AfterFirst(ev.text, DeployForms))

\* "kubectl get deployments -n kube system" was asked with the namespace
\* "kube system", extra word included
C4_Witness ==
    /\ MentionedLast
    /\ ev.text = <<"<","@","U","1",">"," ","k","u","b","e","c","t","l"," ","g","e","t"," ","d","e","p","l","o","y","m","e","n","t","s"," ","-","n"," ","k","u","b","e"," ","s","y","s","t","e","m">>
    /\ Len(queries) = 1
    /\ queries[1].kind = "deployments"
    /\ queries[1].namespace = <<"k","u","b","e"," ","s","y","s","t","e","m">>

----------------------------------------------------------------------------
\* C5 as stated: wherever the text of a message that mentions the bot reads
\* "get po -n X", "get pod -n X" or "get pods -n X", a pod list query for
\* exactly X is issued, and no workload list query.
C5_BareFormGoesToPods ==
    MentionedLast =>
        \A o \in Occurrences(ev.text, BarePodForms) :
            /\ \E q \in QueriesFor(ev.id) :
                  /\ queries[q].kind = "pods"
                  /\ queries[q].namespace = From(ev.text, o[1] + Len(o[2]))
            /\ \A q \in QueriesFor(ev.id) : queries[q].kind # "deployments"

\* C5 amended: when the text of a message that mentions the bot contains
\* "k" or "kubectl", then " get po", " get pod", " get pods" or " get pos",
\* then " -n ", and contains no workload command, one pod list query and no
\* workload list query is issued, and its namespace is what follows the "-n "
\* of the leftmost such command up to the end of that line, untrimmed.
C5_PodCommandGoesToPods ==
    (/\ MentionedLast
     /\ Occurrences(ev.text, PodForms) # {}
     /\ Occurrences(ev.text, DeployForms) = {}) =>
        /\ Cardinality(QueriesFor(ev.id)) = 1
        /\ \A q \in QueriesFor(ev.id) :
              /\ queries[q].kind = "pods"
              /\ queries[q].namespace = Line(AfterFirst(ev.text, PodForms))

\* "k get pods -n prod!" was asked of the pods with the namespace "prod!"
C5_Witness ==
    /\ MentionedLast
    /\ ev.text = <<"<","@","U","1",">"," ","k"," ","g","e","t"," ","p","o","d","s"," ","-","n"," ","p","r","o","d","!">>
    /\ Len(queries) = 1
    /\ queries[1].kind = "pods"
    /\ queries[1].namespace = <<"p","r","o","d","!">>

----------------------------------------------------------------------------
RECURSIVE NameLines(_)
\* each name followed by a line break, in the order of the items
NameLines(items) ==
    IF items = <<>> THEN <<>>
    ELSE Head(items).name \o <<"\n">> \o NameLines(Tail(items))

\* the last message was handled to its end and main did not panic
HandledLast == ev.id > 0 /\ pc \in {"recv", "done"}

\* the handling of the last message asked for the workloads of namespace ns,
\* got a listing, and sent one reply: the opening fence and a line break, each
\* name and a line break, the closing fence
WorkloadsListed(ns) ==
    /\ Cardinality(RepliesTo(ev.id)) = 1
    /\ \E q \in QueriesFor(ev.id) :
          /\ queries[q].kind = "deployments"
          /\ queries[q].namespace = ns
          /\ queries[q].outcome = "ok"
          /\ TextsReplied = {<<BQ,BQ,BQ,"\n">> \o NameLines(queries[q].items) \o <<BQ,BQ,BQ>>}

\* C6 as stated: the message "<@bot> get deploy -n N" is answered with the
\* fenced block of the workloads of namespace N.
C6_BareCommandListsWorkloads ==
    (/\ ev.type = "message"
     /\ HasAt(ev.text, 1, botTagString \o <<" ","g","e","t"," ","d","e","p","l","o","y"," ","-","n"," ">>)
     /\ HandledLast) =>
        WorkloadsListed(From(ev.text, Len(botTagString \o <<" ","g","e","t"," ","d","e","p","l","o","y"," ","-","n"," ">>) + 1))

\* C6 amended: the message "<@bot> kubectl get deploy -n N" or
\* "<@bot> k get deploy -n N", N without a line break, is answered, when the
\* list call returns a listing, with the fenced block of the workloads
\* returned for namespace N.
C6_CommandListsWorkloads ==
    \A k \in {<<"k">>, <<"k","u","b","e","c","t","l">>} :
        LET lead == botTagString \o <<" ">> \o k \o <<" ","g","e","t"," ","d","e","p","l","o","y"," ","-","n"," ">>
            ns == From(ev.text, Len(lead) + 1)
        IN  (/\ ev.type = "message"
             /\ HasAt(ev.text, 1, lead)
             /\ ~Contains(ns, <<"\n">>)
             /\ HandledLast) => WorkloadsListed(ns)

\* "<@U1> kubectl get deploy -n prod" with the workloads api and worker was
\* answered with the block holding "api\nworker\n"
C6_Witness ==
    /\ ev.text = <<"<","@","U","1",">"," ","k","u","b","e","c","t","l"," ","g","e","t"," ","d","e","p","l","o","y"," ","-","n"," ","p","r","o","d">>
    /\ pc = "recv"
    /\ Len(queries) = 1
    /\ queries[1].namespace = <<"p","r","o","d">>
    /\ queries[1].items = <<[name |-> <<"a","p","i">>], [name |-> <<"w","o","r","k","e","r">>]>>
    /\ Len(outgoing) = 1
    /\ outgoing[1].text = <<BQ,BQ,BQ,"\n","a","p","i","\n","w","o","r","k","e","r","\n",BQ,BQ,BQ>>

----------------------------------------------------------------------------
RECURSIVE DeclaredLines(_)
\* a line per pod: name, phase, containers running / containers declared
DeclaredLines(items) ==
    IF items = <<>> THEN <<>>
    ELSE LET po == Head(items)
             running == Cardinality({i \in 1..Len(po.statuses) :
                                        po.statuses[i] = "running"})
         IN  po.name \o <<"\t">> \o po.phase \o <<"\t">> \o Itoa(running) \o <<"/">>
                 \o Itoa(po.containers) \o <<"\n">> \o DeclaredLines(Tail(items))

\* C7: in the reply to a pod list command each pod is one line "name, tab,
\* phase, tab, running/total", total being the number of containers the pod
\* declares, however many container statuses have been reported.
C7_TotalIsDeclaredCount ==
    \A q \in QueriesFor(ev.id) :
        (queries[q].kind = "pods" /\ queries[q].outcome = "ok") =>
            TextsReplied = {<<BQ,BQ,BQ,"\n">> \o DeclaredLines(queries[q].items) \o <<BQ,BQ,BQ>>}

\* a pod that declares three containers, two of them reported and running,
\* was listed
C7_Witness ==
    /\ Len(queries) = 1
    /\ queries[1].kind = "pods"
    /\ queries[1].outcome = "ok"
    /\ queries[1].items =
           <<[name |-> <<"a","p","i","-","1">>, phase |-> <<"R","u","n","n","i","n","g">>, containers |-> 3,
              statuses |-> <<"running", "running">>]>>
    /\ outgoing[1].text = <<BQ,BQ,BQ,"\n","a","p","i","-","1","\t","R","u","n","n","i","n","g","\t","2","/","2","\n",BQ,BQ,BQ>>

----------------------------------------------------------------------------
\* the step receives an event of this type
Receives(type) == ev'.id # ev.id /\ ev'.type = type

\* C8 as stated: the loop leaves Running only by receiving an invalid-auth
\* event or when the event stream has ended, and once it has left Running
\* nothing happens any more.
C8_OnlyAuthOrStreamEndTerminates ==
    [][/\ (Running /\ ~Running') =>
              (Receives("invalid_auth") \/ (closed /\ incoming = <<>>))
       /\ ~Running => UNCHANGED vars]_vars

\* C8 amended: the loop leaves Running only by receiving an invalid-auth
\* event, when the event stream has ended, or when a list query returns an
\* error and main panics; receiving an invalid-auth event always ends it; and
\* once it has left Running nothing happens any more.
C8_TerminationCauses ==
    [][/\ (Running /\ ~Running') =>
              \/ Receives("invalid_auth")
              \/ (closed /\ incoming = <<>>)
              \/ /\ pc = "listing"
                 /\ queries'[Len(queries')].outcome = "error"
       /\ Receives("invalid_auth") => ~Running'
       /\ ~Running => UNCHANGED vars]_vars

\* the loop ended on an invalid-auth event after having replied once, with
\* an event still waiting that will never be handled
C8_Witness ==
    /\ pc = "done"
    /\ ev.type = "invalid_auth"
    /\ incoming # <<>>
    /\ Len(outgoing) = 1

----------------------------------------------------------------------------
\* C9: receiving a hello, connected, presence-change, latency-report,
\* desktop-notification, generic-error or unknown event sends nothing, asks
\* nothing and leaves the loop Running; receiving an invalid-auth event sends
\* nothing, asks nothing and stops the loop.
C9_NonMessageEvents ==
    [][/\ (\E t \in SilentTypes : Receives(t)) =>
              (pc' = "recv" /\ outgoing' = outgoing /\ queries' = queries)
       /\ Receives("invalid_auth") =>
              (pc' = "done" /\ outgoing' = outgoing /\ queries' = queries)]_vars

\* a generic error was received after a reply had been sent, and the loop
\* waits for the next event
C9_Witness ==
    /\ ev.type = "rtm_error"
    /\ ev.id = 2
    /\ pc = "recv"
    /\ Len(outgoing) = 1
    /\ Len(queries) = 1

----------------------------------------------------------------------------
InFlight == {i \in 1..Len(queries) : queries[i].outcome = "pending"}

\* what the loop has done so far is in order: the waiting events follow the
\* last one received, none skipped; at most one list query is in flight, and
\* it belongs to the event being handled; replies and queries are in the
\* order of their events
HandledInOrder ==
    /\ \A i \in 1..Len(incoming) : incoming[i].id = ev.id + i
    /\ ev.id + Len(incoming) = delivered
    /\ Cardinality(InFlight) <= 1
    /\ \A i \in InFlight : queries[i].for = ev.id /\ pc = "listing"
    /\ \A i, j \in 1..Len(queries) : i < j => queries[i].for < queries[j].for
    /\ \A i, j \in 1..Len(outgoing) : i < j => outgoing[i].re < outgoing[j].re

\* a step that sends a reply or issues a list query does it for the event
\* received last, and an event is received only when no query is in flight
OneAtATime ==
    /\ ev'.id # ev.id => (ev'.id = ev.id + 1 /\ InFlight = {})
    /\ outgoing' # outgoing =>
           /\ Len(outgoing') = Len(outgoing) + 1
           /\ outgoing'[Len(outgoing')].re = ev'.id
           /\ outgoing'[Len(outgoing')].channel = ev'.channel
    /\ Len(queries') # Len(queries) =>
           /\ Len(queries') = Len(queries) + 1
           /\ queries'[Len(queries')].for = ev'.id

\* C10: events are handled one at a time in the order of their delivery,
\* while the transport keeps delivering: the handling of an event, its list
\* query and its reply included, is over before the next event is received,
\* at most one list query is in flight, and the replies are in the order of
\* the messages they answer.
C10_OneAtATimeInOrder == []HandledInOrder /\ [][OneAtATime]_vars

\* while the list query of the second event is in flight, a reply to the
\* first has been sent and a third event already waits in the channel
C10_Witness ==
    /\ pc = "listing"
    /\ ev.id = 2
    /\ Len(incoming) = 1
    /\ Len(outgoing) = 1
    /\ outgoing[1].re = 1
    /\ Cardinality(InFlight) = 1
====
